---- MODULE Spec2Model ----
(***************************************************************************)
(* Model of the GHRSST opensearch client of src/opensearx.ipynb:           *)
(*   - _format_opensearch_url (lines 45-76): the query string (SpecUrl);   *)
(*   - format_opensearch_result (lines 79-108): merge of the raw entries   *)
(*     by normalized file name, then sort by file name (SpecFormat);       *)
(*   - search (lines 111-174): the paginated fetch loop, for one call      *)
(*     (Spec) and for two calls in progress at once (SpecTwoCalls).        *)
(*                                                                         *)
(* Python values.  A str is a sequence of one-character strings, so that   *)
(* endswith, + and the ordering used by sorted() are computed.  A dict is  *)
(* a function whose DOMAIN is its set of keys (a missing key is a key not  *)
(* in the DOMAIN).  dict_entries, whose iteration order matters, is the    *)
(* sequence of its items [file_id, entry] in insertion order.  The entries *)
(* of the input list are distinct objects, as json.loads builds them.      *)
(* A query string is the sequence of the pieces it is concatenated from:   *)
(* the separators and names of the format strings, the characters of the   *)
(* numbers and dates formatted into it, the str arguments as they are.     *)
(***************************************************************************)
EXTENDS Integers, Sequences, FiniteSets, TLC

VARIABLES
    pc,            \* position of the running function
    entries,       \* format_opensearch_result: its argument
    idx,           \* format_opensearch_result: entries consumed by the for loop
    dict_entries,  \* format_opensearch_result: the merge dict, in insertion order
    result,        \* what the function returned (NoResult until it returns)
    results,       \* search: the accumulated entries
    last_page,     \* search: the loop's flag
    page,          \* search: the index of the next page to request
    requests,      \* the startPage of every request issued to the service, in order
    response,      \* what the last urlopen call gave: a page, or the error it raised
    received,      \* the well-formed pages the service returned, in order
    catalog,       \* the service: the entries it holds, page by page
    previous,      \* what the call before this one returned, when this call
                   \* is given the records of that mapping as its entries
    args,          \* the arguments of the call (NoCall when it takes no query)
    uri,           \* the query last formatted by _format_opensearch_url
    calls          \* the locals of each of two calls of search in progress at
                   \* the same time (empty when there is one call)

fvars == <<entries, idx, dict_entries>>
svars == <<results, last_page, page, requests, response, received, catalog>>
ovars == <<previous, args, uri, calls>>
vars == <<pc, entries, idx, dict_entries, result, svars, ovars>>

(***************************************************************************)
(* Bounds of the model.                                                    *)
(***************************************************************************)
MaxEntries == 3

\* search stops requesting at this many pages (the code has no cap)
MaxPages == 3

(***************************************************************************)
(* Python values.                                                          *)
(***************************************************************************)
\* None: a value that is no str (every element of a str is one character).
None == <<"None">>

\* nothing returned: a value that is no mapping
NoResult == << [none |-> TRUE] >>

NoResponse == [kind |-> "none"]

NoCall == [none |-> TRUE]

DotNc == <<".", "n", "c">>

\* ord() of the characters the model's strings are made of.
Ord(ch) ==
    CASE ch = "." -> 46
      [] ch = "1" -> 49
      [] ch = "a" -> 97
      [] ch = "b" -> 98
      [] ch = "c" -> 99
      [] ch = "f" -> 102
      [] ch = "n" -> 110
      [] ch = "o" -> 111
      [] ch = "r" -> 114
      [] ch = "u" -> 117

\* str.endswith
endswith(s, suffix) ==
    /\ Len(s) >= Len(suffix)
    /\ SubSeq(s, Len(s) - Len(suffix) + 1, Len(s)) = suffix

\* str.__lt__: lexicographic order on the code points.
RECURSIVE StrLess(_, _)
StrLess(a, b) ==
    IF b = <<>> THEN FALSE
    ELSE IF a = <<>> THEN TRUE
    ELSE IF Ord(Head(a)) # Ord(Head(b)) THEN Ord(Head(a)) < Ord(Head(b))
    ELSE StrLess(Tail(a), Tail(b))

\* d[k] = v on a dict
SetKey(d, k, v) == [x \in (DOMAIN d) \cup {k} |-> IF x = k THEN v ELSE d[x]]

\* d.pop(k) on a dict that has k
Pop(d, k) == [x \in (DOMAIN d) \ {k} |-> d[x]]

(***************************************************************************)
(* format_opensearch_result                                                *)
(***************************************************************************)
\* FileId with the suffix removed instead of appended
FileId_SuffixRemoved(entry) ==
    IF endswith(entry["title"], DotNc)
    THEN SubSeq(entry["title"], 1, Len(entry["title"]) - 3)
    ELSE entry["title"]

\* FileId with the test of the suffix left out
FileId_AlwaysAppend(entry) == entry["title"] \o DotNc

\* file_id = entry['title'], with '.nc' appended unless it ends with it
FileId(entry) ==
    IF ~endswith(entry["title"], DotNc)
    THEN entry["title"] \o DotNc
    ELSE entry["title"]

\* TagLinks with the tag given only to the links that carry none
TagLinks_KeepOwn(entry) ==
    [i \in 1..Len(entry["links"]) |->
        IF "source" \in DOMAIN entry["links"][i]
        THEN entry["links"][i]
        ELSE SetKey(entry["links"][i], "source", entry["source"])]

\* for link in entry['links']: link['source'] = entry['source']
TagLinks(entry) ==
    [i \in 1..Len(entry["links"]) |->
        SetKey(entry["links"][i], "source", entry["source"])]

\* the entry after its links are tagged and its 'source' is popped
Tagged(entry) == Pop(SetKey(entry, "links", TagLinks(entry)), "source")

\* file_id in dict_entries
HasKey(dict, file_id) == \E i \in 1..Len(dict) : dict[i].file_id = file_id

KeyIndex(dict, file_id) == CHOOSE i \in 1..Len(dict) : dict[i].file_id = file_id

\* dict_entries[file_id]
Lookup(dict, file_id) == dict[KeyIndex(dict, file_id)].entry

\* MergeInto with the links assigned instead of extended
MergeInto_LinksReplaced(rec, e) ==
    [attr \in DOMAIN rec |->
        IF attr = "links" THEN e["links"]
        ELSE IF e[attr] # None THEN e[attr]
        ELSE rec[attr]]

\* MergeInto without the test for None
MergeInto_Overwrite(rec, e) ==
    [attr \in DOMAIN rec |->
        IF attr = "links" THEN rec["links"] \o e["links"]
        ELSE e[attr]]

\* MergeInto with the keys of the entry added to those of the record
MergeInto_AddKeys(rec, e) ==
    [attr \in (DOMAIN rec) \cup (DOMAIN e) |->
        IF attr = "links" THEN rec["links"] \o e["links"]
        ELSE IF attr \notin DOMAIN rec THEN e[attr]
        ELSE IF e[attr] # None THEN e[attr]
        ELSE rec[attr]]

\* The merge of entry e (tagged) into the record already stored: the links
\* are extended, every other key of the record takes e's value unless it
\* is None.
MergeInto(rec, e) ==
    [attr \in DOMAIN rec |->
        IF attr = "links" THEN rec["links"] \o e["links"]
        ELSE IF e[attr] # None THEN e[attr]
        ELSE rec[attr]]

\* The KeyError of entry['source'] / entry.pop('source'), or of entry[attr]
\* for a key of the stored record that the entry lacks.
RaisesKeyError(dict, entry) ==
    \/ "source" \notin DOMAIN entry
    \/ /\ HasKey(dict, FileId(entry))
       /\ \E attr \in DOMAIN Lookup(dict, FileId(entry)) :
              attr \notin DOMAIN Tagged(entry)

\* MergeEntry with the dict keyed by the title as received
MergeEntry_KeyedByTitle(dict, entry) ==
    LET file_id == entry["title"]
        e == Tagged(entry)
    IN  IF HasKey(dict, file_id)
        THEN [dict EXCEPT ![KeyIndex(dict, file_id)].entry = MergeInto(@, e)]
        ELSE Append(dict, [file_id |-> file_id, entry |-> e])

\* MergeEntry with the links of the entry appended to every record stored
\* under another key as well (one links list shared by the records)
MergeEntry_SharedLinks(dict, entry) ==
    LET file_id == FileId(entry)
        e == Tagged(entry)
        others == [i \in 1..Len(dict) |->
                      IF dict[i].file_id = file_id THEN dict[i]
                      ELSE [dict[i] EXCEPT !.entry["links"] = @ \o e["links"]]]
    IN  IF HasKey(dict, file_id)
        THEN [others EXCEPT ![KeyIndex(dict, file_id)].entry = MergeInto(@, e)]
        ELSE Append(others, [file_id |-> file_id, entry |-> e])

\* One iteration of the for loop on an entry that raises nothing.
MergeEntry(dict, entry) ==
    LET file_id == FileId(entry)
        e == Tagged(entry)
    IN  IF HasKey(dict, file_id)
        THEN [dict EXCEPT ![KeyIndex(dict, file_id)].entry = MergeInto(@, e)]
        ELSE Append(dict, [file_id |-> file_id, entry |-> e])

\* sorted(): the keys in ascending order of str.__lt__
RECURSIVE InsertSorted(_, _)
InsertSorted(k, s) ==
    IF s = <<>> THEN <<k>>
    ELSE IF StrLess(k, Head(s)) THEN <<k>> \o s
    ELSE <<Head(s)>> \o InsertSorted(k, Tail(s))

RECURSIVE sorted(_)
sorted(keys) ==
    IF keys = <<>> THEN <<>>
    ELSE InsertSorted(Head(keys), sorted(Tail(keys)))

DictKeys(dict) == [i \in 1..Len(dict) |-> dict[i].file_id]

\* SortDict without the sort: the dict in insertion order
SortDict_Unsorted(dict) == dict

\* {_: dict_entries[_] for _ in sorted(dict_entries.keys())}
SortDict(dict) ==
    LET ks == sorted(DictKeys(dict))
    IN  [i \in 1..Len(ks) |-> [file_id |-> ks[i], entry |-> Lookup(dict, ks[i])]]

(***************************************************************************)
(* The inputs of format_opensearch_result.                                 *)
(***************************************************************************)
Titles ==
    { <<"b", ".", "n", "c">>, <<"a">>, <<"a", ".", "n", "c">>,
      <<"c", ".", "n", "c">> }

LinkS3   == [href |-> "s3://podaac/f", title |-> "S3"]
LinkHttp == [href |-> "https://podaac/f", title |-> "HTTPS"]
LinkFtp  == [href |-> "ftp://ifremer/f", title |-> "FTP"]

\* a link that arrives with a provider tag of its own
LinkOwnSource ==
    [href |-> "https://podaac/f", title |-> "HTTPS", source |-> "PODAAC"]

Foo == <<"f", "o", "o">>
Bar == <<"b", "a", "r">>
U1 == <<"u", "1">>

\* What one DAC reports of a file, besides its title.
Observations ==
    { [source |-> "PODAAC", links |-> <<LinkS3, LinkHttp>>,
       summary |-> None, updated |-> U1],
      [source |-> "OSISAF", links |-> <<LinkFtp>>,
       summary |-> Foo, updated |-> None],
      [source |-> "OSISAF", links |-> <<LinkFtp, LinkOwnSource>>,
       summary |-> Bar, updated |-> None],
      [source |-> "EUMETSAT", links |-> <<LinkHttp>>,
       updated |-> U1] }

RawEntries == { SetKey(o, "title", t) : o \in Observations, t \in Titles }

RECURSIVE SeqsUpTo(_, _)
SeqsUpTo(S, n) ==
    IF n = 0 THEN { <<>> }
    ELSE LET shorter == SeqsUpTo(S, n - 1)
         IN  shorter \cup { Append(s, x) : s \in shorter, x \in S }

(***************************************************************************)
(* format_opensearch_result, one iteration of its loop at a time.          *)
(***************************************************************************)
InitFormat ==
    /\ pc = "merge"
    /\ entries \in SeqsUpTo(RawEntries, MaxEntries)
    /\ idx = 0
    /\ dict_entries = <<>>
    /\ result = NoResult
    /\ results = <<>>
    /\ last_page = FALSE
    /\ page = 0
    /\ requests = <<>>
    /\ response = NoResponse
    /\ received = <<>>
    /\ catalog = <<>>
    /\ previous = NoResult
    /\ args = NoCall
    /\ uri = <<>>
    /\ calls = <<>>

\* lines 82-103: the body of the for loop on the next entry.  When it raises,
\* the function is left at once and its dict_entries is lost with it.
MergeStep ==
    /\ pc = "merge"
    /\ idx < Len(entries)
    /\ idx' = idx + 1
    /\ IF RaisesKeyError(dict_entries, entries[idx + 1])
       THEN /\ pc' = "raised"
            /\ UNCHANGED dict_entries
       ELSE /\ pc' = "merge"
            /\ dict_entries' = MergeEntry(dict_entries, entries[idx + 1])
    /\ UNCHANGED <<entries, result, svars, ovars>>

\* lines 105-108: sort by file name and return
SortAndReturn ==
    /\ pc = "merge"
    /\ idx = Len(entries)
    /\ pc' = "returned"
    /\ result' = SortDict(dict_entries)
    /\ UNCHANGED <<entries, idx, dict_entries, svars, ovars>>

\* format_opensearch_result called again, on the records of the mapping it
\* returned (list(result.values())): lines 79-81 of the second call
FormatAgain ==
    /\ pc = "returned"
    /\ previous = NoResult
    /\ previous' = result
    /\ entries' = [j \in 1..Len(result) |-> result[j].entry]
    /\ idx' = 0
    /\ dict_entries' = <<>>
    /\ result' = NoResult
    /\ pc' = "merge"
    /\ UNCHANGED <<svars, args, uri, calls>>

NextFormat == MergeStep \/ SortAndReturn \/ FormatAgain

SpecFormat == InitFormat /\ [][NextFormat]_vars

(***************************************************************************)
(* _format_opensearch_url                                                  *)
(***************************************************************************)
GHRSST_OPENSEARCH_URL == <<"https://opensearch-ghrsst.ifremer.fr/granules.json">>

\* the default of the count parameter
DefaultCount == 1000

\* str() of a natural number: its decimal digits
RECURSIVE IntStr(_)
IntStr(n) ==
    LET digit == <<"0", "1", "2", "3", "4", "5", "6", "7", "8", "9">>[(n % 10) + 1]
    IN  IF n < 10 THEN <<digit>> ELSE IntStr(n \div 10) \o <<digit>>

\* the digits of n on at least w positions, as %0wd
RECURSIVE ZeroPad(_, _)
ZeroPad(digits, w) ==
    IF Len(digits) >= w THEN digits ELSE ZeroPad(<<"0">> \o digits, w)

\* datetime.isoformat() of a datetime built from (year, month, day)
isoformat(d) ==
    ZeroPad(IntStr(d.year), 4) \o <<"-">> \o ZeroPad(IntStr(d.month), 2)
        \o <<"-">> \o ZeroPad(IntStr(d.day), 2)
        \o <<"T", "0", "0", ":", "0", "0", ":", "0", "0">>

\* repr() of a float holding a whole number of degrees
FloatRepr(x) ==
    IF x < 0 THEN <<"-">> \o IntStr(0 - x) \o <<".", "0">>
    ELSE IntStr(x) \o <<".", "0">>

\* str(tuple(area)) of a tuple of two elements or more
RECURSIVE JoinReprs(_)
JoinReprs(t) ==
    IF Len(t) = 1 THEN FloatRepr(t[1])
    ELSE FloatRepr(Head(t)) \o <<",", " ">> \o JoinReprs(Tail(t))

TupleStr(t) == <<"(">> \o JoinReprs(t) \o <<")">>

\* s.replace(ch, '')
Remove(s, ch) == SelectSeq(s, LAMBDA c : c # ch)

\* s.lstrip(ch)
RECURSIVE lstrip(_, _)
lstrip(s, ch) ==
    IF s # <<>> /\ Head(s) = ch THEN lstrip(Tail(s), ch) ELSE s

\* s.rstrip(ch)
RECURSIVE rstrip(_, _)
rstrip(s, ch) ==
    IF s # <<>> /\ s[Len(s)] = ch THEN rstrip(SubSeq(s, 1, Len(s) - 1), ch) ELSE s

\* s.strip(ch)
strip(s, ch) == rstrip(lstrip(s, ch), ch)

\* format_opensearch_url with the source parameter appended whether or not
\* a dac is given
format_opensearch_url_SourceAlways(dataset_id, start, end, area, dac, protocol, page_, count) ==
    LET search_url ==
            GHRSST_OPENSEARCH_URL
                \o <<"?", "datasetId", "=">> \o dataset_id
                \o <<"&", "startPage", "=">> \o IntStr(page_)
                \o <<"&", "count", "=">> \o IntStr(count)
                \o <<"&", "timeStart", "=">> \o isoformat(start)
                \o <<"&", "timeEnd", "=">> \o isoformat(end)
        with_area ==
            IF area # None
            THEN search_url \o <<"&", "geoBox", "=">>
                     \o strip(lstrip(Remove(TupleStr(area), " "), "("), ")")
            ELSE search_url
        with_dac == with_area \o <<"&", "source", "=">> \o dac
    IN  IF protocol # None
        THEN with_dac \o <<"&", "protocol", "=">> \o protocol
        ELSE with_dac

\* _format_opensearch_url (trace, which only prints, is left out)
format_opensearch_url(dataset_id, start, end, area, dac, protocol, page_, count) ==
    LET search_url ==
            GHRSST_OPENSEARCH_URL
                \o <<"?", "datasetId", "=">> \o dataset_id
                \o <<"&", "startPage", "=">> \o IntStr(page_)
                \o <<"&", "count", "=">> \o IntStr(count)
                \o <<"&", "timeStart", "=">> \o isoformat(start)
                \o <<"&", "timeEnd", "=">> \o isoformat(end)
        with_area ==
            IF area # None
            THEN search_url \o <<"&", "geoBox", "=">>
                     \o strip(lstrip(Remove(TupleStr(area), " "), "("), ")")
            ELSE search_url
        with_dac ==
            IF dac # None
            THEN with_area \o <<"&", "source", "=">> \o dac
            ELSE with_area
    IN  IF protocol # None
        THEN with_dac \o <<"&", "protocol", "=">> \o protocol
        ELSE with_dac

(***************************************************************************)
(* The calls of _format_opensearch_url: the arguments of the notebook's    *)
(* examples, each optional one given or not.                               *)
(***************************************************************************)
DatasetIds ==
    { <<"AVHRR_SST_METOP_B-OSISAF-L2P-v1.0">>, <<"SLSTRA-MAR-L2P-NTC-v3.0">> }

StartTimes == { [year |-> 2018, month |-> 12, day |-> 1],
                [year |-> 2022, month |-> 5, day |-> 1] }

EndTimes == { [year |-> 2018, month |-> 12, day |-> 2],
              [year |-> 2022, month |-> 5, day |-> 2] }

Areas == { <<0 - 180, 0 - 90, 180, 90>>, <<0, 0, 10, 45>> }

Dacs == { <<"OSISAF">>, <<"EUMETSAT">> }

Protocols == { <<"HTTPS">>, <<"FTP">> }

UrlCalls ==
    [dataset_id : DatasetIds, start : StartTimes, end : EndTimes,
     area : Areas \cup {None}, dac : Dacs \cup {None},
     protocol : Protocols \cup {None}, page : 0..MaxPages,
     count : {DefaultCount}]

InitUrl ==
    /\ pc = "format"
    /\ args \in UrlCalls
    /\ uri = <<>>
    /\ calls = <<>>
    /\ entries = <<>>
    /\ idx = 0
    /\ dict_entries = <<>>
    /\ result = NoResult
    /\ results = <<>>
    /\ last_page = FALSE
    /\ page = 0
    /\ requests = <<>>
    /\ response = NoResponse
    /\ received = <<>>
    /\ catalog = <<>>
    /\ previous = NoResult

\* lines 45-76: one call of _format_opensearch_url
FormatUrl ==
    /\ pc = "format"
    /\ uri' = format_opensearch_url(args.dataset_id, args.start, args.end,
                                    args.area, args.dac, args.protocol,
                                    args.page, args.count)
    /\ pc' = "formatted"
    /\ UNCHANGED <<fvars, result, svars, previous, args, calls>>

NextUrl == FormatUrl

SpecUrl == InitUrl /\ [][NextUrl]_vars

(***************************************************************************)
(* search                                                                  *)
(***************************************************************************)
\* The whole for loop of format_opensearch_result on the entries es.
RECURSIVE MergeAllRaises(_, _)
MergeAllRaises(dict, es) ==
    IF es = <<>> THEN FALSE
    ELSE IF RaisesKeyError(dict, Head(es)) THEN TRUE
    ELSE MergeAllRaises(MergeEntry(dict, Head(es)), Tail(es))

RECURSIVE MergeAll(_, _)
MergeAll(dict, es) ==
    IF es = <<>> THEN dict
    ELSE MergeAll(MergeEntry(dict, Head(es)), Tail(es))

\* results.extend(entries) with the entries replacing the list
Extend_Replace(list, items) == items

\* results.extend(entries)
Extend(list, items) == list \o items

\* the termination test with the local page counter for start_index
Exhausted_PageCounter(status) ==
    status.total_results < (page + 1) * status.items_per_page

\* the termination test with <= for <
Exhausted_OffByOne(status) ==
    status.total_results <= (status.start_index + 1) * status.items_per_page

\* status['total_results'] < (status['start_index']+1)*status['items_per_page']
Exhausted(status) ==
    status.total_results < (status.start_index + 1) * status.items_per_page

(***************************************************************************)
(* The service.  It holds a catalog of entries, page by page, and answers  *)
(* a request for a page with the entries of that page under a header whose *)
(* three numbers it is free to choose, or with an error.                   *)
(***************************************************************************)
TotalResultsValues == {0, 2, 250}
StartIndexValues == {0, 1, 2}
ItemsPerPageValues == {0, 1, 100}

Headers ==
    [total_results : TotalResultsValues,
     start_index : StartIndexValues,
     items_per_page : ItemsPerPageValues]

\* what urlopen raises: HTTPError for a status that is not 2xx, URLError
\* for a transport failure
FetchErrors ==
    { [kind |-> "HTTPError", code |-> 404], [kind |-> "URLError", code |-> 0] }

\* the call of search of the notebook's first example (lines 212-221)
SearchCall ==
    [dataset_id |-> <<"AVHRR_SST_METOP_B-OSISAF-L2P-v1.0">>,
     start |-> [year |-> 2018, month |-> 12, day |-> 1],
     end |-> [year |-> 2018, month |-> 12, day |-> 2],
     area |-> <<0 - 180, 0 - 90, 180, 90>>, dac |-> None, protocol |-> None]

\* None, where the value of an argument is a datetime
NoneDatetime == [none |-> TRUE]

\* the call of the notebook with protocol='HTTPS' (line 503), whose
\* result is empty
SearchCallProtocol ==
    [dataset_id |-> <<"AVHRR_SST_METOP_B-OSISAF-L2P-v1.0">>,
     start |-> [year |-> 2018, month |-> 12, day |-> 1],
     end |-> [year |-> 2018, month |-> 12, day |-> 2],
     area |-> <<0 - 180, 0 - 90, 180, 90>>, dac |-> None,
     protocol |-> <<"HTTPS">>]

\* a call without end and without area, for one DAC
SearchCallOpenEnd ==
    [dataset_id |-> <<"SLSTRA-MAR-L2P-NTC-v3.0">>,
     start |-> [year |-> 2022, month |-> 5, day |-> 1],
     end |-> NoneDatetime,
     area |-> None, dac |-> <<"OSISAF">>, protocol |-> None]

\* datetime.now() once n requests were issued: the clock reads a later day
\* at each request
Clock(n) == [year |-> 2023, month |-> 1, day |-> 1 + n]

\* lines 145-146: the local end of the call; datetime.now() is read when
\* the call is entered, before any request
EndOfCall == IF args.end = NoneDatetime THEN Clock(0) ELSE args.end

F1nc ==
    [title |-> <<"f", "1", ".", "n", "c">>, source |-> "OSISAF",
     links |-> <<LinkFtp, LinkHttp>>, summary |-> Foo, updated |-> U1]

F1 ==
    [title |-> <<"f", "1">>, source |-> "PODAAC",
     links |-> <<LinkS3>>, summary |-> None, updated |-> U1]

Catalogs == { <<>>, << <<F1nc>>, <<F1>> >>, << <<F1nc, F1>>, <<F1>> >> }

PageEntries(cat, p) == IF p + 1 <= Len(cat) THEN cat[p + 1] ELSE <<>>

\* The service holds one catalog per dataset and query: the call that is
\* answered from the catalog cat.
CallFor(cat) ==
    IF cat = <<>> THEN SearchCallProtocol
    ELSE IF Len(cat[1]) = 1 THEN SearchCall
    ELSE SearchCallOpenEnd

Init ==
    /\ pc = "loop"
    /\ entries = <<>>
    /\ idx = 0
    /\ dict_entries = <<>>
    /\ result = NoResult
    /\ results = <<>>
    /\ last_page = FALSE
    /\ page = 0
    /\ requests = <<>>
    /\ response = NoResponse
    /\ received = <<>>
    /\ catalog \in Catalogs
    /\ previous = NoResult
    /\ args = CallFor(catalog)
    /\ uri = <<>>
    /\ calls = <<>>

\* SendRequest with the next page requested while the page just received
\* is still to be decoded
SendRequest_Prefetch ==
    /\ pc \in {"loop", "decode"}
    /\ ~last_page
    /\ page < MaxPages
    /\ Len(requests) <= page + 1
    /\ uri' = format_opensearch_url(args.dataset_id, args.start, EndOfCall,
                                    args.area, args.dac, args.protocol,
                                    Len(requests), DefaultCount)
    /\ requests' = Append(requests, Len(requests))
    /\ pc' = IF pc = "loop" THEN "urlopen" ELSE pc
    /\ UNCHANGED <<fvars, result, results, last_page, page, response, received,
                   catalog, previous, args, calls>>

\* SendRequest with a cap of two pages
SendRequest_Capped ==
    /\ pc = "loop"
    /\ ~last_page
    /\ page < 2
    /\ uri' = format_opensearch_url(args.dataset_id, args.start, EndOfCall,
                                    args.area, args.dac, args.protocol,
                                    page, DefaultCount)
    /\ requests' = Append(requests, page)
    /\ pc' = "urlopen"
    /\ UNCHANGED <<fvars, result, results, last_page, page, response, received,
                   catalog, previous, args, calls>>

\* SendRequest with the default of end, datetime.now(), read at each request
SendRequest_EndNow ==
    /\ pc = "loop"
    /\ ~last_page
    /\ page < MaxPages
    /\ uri' = format_opensearch_url(
                  args.dataset_id, args.start,
                  IF args.end = NoneDatetime THEN Clock(Len(requests)) ELSE args.end,
                  args.area, args.dac, args.protocol, page, DefaultCount)
    /\ requests' = Append(requests, page)
    /\ pc' = "urlopen"
    /\ UNCHANGED <<fvars, result, results, last_page, page, response, received,
                   catalog, previous, args, calls>>

\* lines 148-156: the query for the page is formatted and sent
SendRequest ==
    /\ pc = "loop"
    /\ ~last_page
    /\ page < MaxPages
    /\ uri' = format_opensearch_url(args.dataset_id, args.start, EndOfCall,
                                    args.area, args.dac, args.protocol,
                                    page, DefaultCount)
    /\ requests' = Append(requests, page)
    /\ pc' = "urlopen"
    /\ UNCHANGED <<fvars, result, results, last_page, page, response, received,
                   catalog, previous, args, calls>>

\* line 156: urlopen returns the response of the service
UrlopenReturns ==
    /\ pc = "urlopen"
    /\ \E status \in Headers :
           response' = [kind |-> "ok", header |-> status,
                        entries |-> PageEntries(catalog, requests[Len(requests)])]
    /\ received' = Append(received, response')
    /\ pc' = "decode"
    /\ UNCHANGED <<fvars, result, results, last_page, page, requests, catalog,
                   ovars>>

\* the bodies json.loads or the unpacking of line 164 cannot take: a text
\* that is no JSON, a JSON object without 'header', one without 'entries'
BadBodies(es) ==
    { [kind |-> "ok", invalid_json |-> TRUE],
      [kind |-> "ok", entries |-> es],
      [kind |-> "ok",
       header |-> [total_results |-> 0, start_index |-> 0, items_per_page |-> 1]] }

\* line 156: urlopen returns a response whose body is malformed
UrlopenReturnsBadBody ==
    /\ pc = "urlopen"
    /\ \E body \in BadBodies(PageEntries(catalog, requests[Len(requests)])) :
           response' = body
    /\ pc' = "decode"
    /\ UNCHANGED <<fvars, result, results, last_page, page, requests, received,
                   catalog, ovars>>

\* UrlopenRaises with the failed request issued again
UrlopenRaises_Retry ==
    /\ pc = "urlopen"
    /\ \E err \in FetchErrors : response' = err
    /\ pc' = "loop"
    /\ UNCHANGED <<fvars, result, results, last_page, page, requests, received,
                   catalog, ovars>>

\* line 156: urlopen raises, and nothing in search catches it
UrlopenRaises ==
    /\ pc = "urlopen"
    /\ \E err \in FetchErrors : response' = err
    /\ pc' = "raised"
    /\ UNCHANGED <<fvars, result, results, last_page, page, requests, received,
                   catalog, ovars>>

\* json.loads raises (line 163), or json_result['header'] or
\* json_result['entries'] raises KeyError (line 164)
Undecodable(body) ==
    \/ "invalid_json" \in DOMAIN body
    \/ "header" \notin DOMAIN body
    \/ "entries" \notin DOMAIN body

\* DecodePage with the page that cannot be decoded skipped
DecodePage_SkipBadBody ==
    /\ pc = "decode"
    /\ IF Undecodable(response)
       THEN UNCHANGED <<results, last_page>>
       ELSE /\ results' = Extend(results, response.entries)
            /\ last_page' = IF Exhausted(response.header) THEN TRUE ELSE last_page
    /\ page' = page + 1
    /\ pc' = "loop"
    /\ UNCHANGED <<fvars, result, requests, response, received, catalog, ovars>>

\* lines 162-171: the page is decoded, its entries accumulated, the
\* termination test evaluated and the page counter incremented; an exception
\* of the decoding leaves search at once
DecodePage ==
    /\ pc = "decode"
    /\ IF Undecodable(response)
       THEN /\ pc' = "raised"
            /\ UNCHANGED <<results, last_page, page>>
       ELSE /\ results' = Extend(results, response.entries)
            /\ last_page' = IF Exhausted(response.header) THEN TRUE ELSE last_page
            /\ page' = page + 1
            /\ pc' = "loop"
    /\ UNCHANGED <<fvars, result, requests, response, received, catalog, ovars>>

\* ReturnFormatted with an error raised when nothing was found
ReturnFormatted_RaiseOnEmpty ==
    /\ pc = "loop"
    /\ last_page
    /\ entries' = results
    /\ IF results = <<>> \/ MergeAllRaises(<<>>, results)
       THEN /\ pc' = "raised"
            /\ UNCHANGED <<idx, dict_entries, result>>
       ELSE /\ pc' = "returned"
            /\ idx' = Len(results)
            /\ dict_entries' = MergeAll(<<>>, results)
            /\ result' = SortDict(dict_entries')
    /\ UNCHANGED <<svars, ovars>>

\* line 174: return format_opensearch_result(results)
ReturnFormatted ==
    /\ pc = "loop"
    /\ last_page
    /\ entries' = results
    /\ IF MergeAllRaises(<<>>, results)
       THEN /\ pc' = "raised"
            /\ UNCHANGED <<idx, dict_entries, result>>
       ELSE /\ pc' = "returned"
            /\ idx' = Len(results)
            /\ dict_entries' = MergeAll(<<>>, results)
            /\ result' = SortDict(dict_entries')
    /\ UNCHANGED <<svars, ovars>>

Next ==
    \/ SendRequest
    \/ UrlopenReturns
    \/ UrlopenReturnsBadBody
    \/ UrlopenRaises
    \/ DecodePage
    \/ ReturnFormatted

Spec == Init /\ [][Next]_vars

(***************************************************************************)
(* Two calls of search in progress at the same time (two threads), their   *)
(* steps interleaved.  Every name search assigns is a local of the call    *)
(* (lines 143-171): calls[c] holds the locals of call c, and each call     *)
(* queries the service for its own dataset.                                *)
(***************************************************************************)
CallIds == {1, 2}

\* the headers the service answers the two calls with: one that lets the
\* loop go on, one that stops it
TwoCallHeaders ==
    { [total_results |-> 2, start_index |-> 0, items_per_page |-> 1],
      [total_results |-> 2, start_index |-> 2, items_per_page |-> 1] }

TwoCallCatalogs == { << <<F1nc>>, <<F1>> >>, << <<F1>> >> }

\* lines 143-149 of one call
InitialCall(cat) ==
    [pc |-> "loop", results |-> <<>>, last_page |-> FALSE, page |-> 0,
     requests |-> <<>>, response |-> NoResponse, received |-> <<>>,
     result |-> NoResult, catalog |-> cat]

InitTwoCalls ==
    /\ calls \in [CallIds -> { InitialCall(cat) : cat \in TwoCallCatalogs }]
    /\ pc = "calls"
    /\ entries = <<>>
    /\ idx = 0
    /\ dict_entries = <<>>
    /\ result = NoResult
    /\ results = <<>>
    /\ last_page = FALSE
    /\ page = 0
    /\ requests = <<>>
    /\ response = NoResponse
    /\ received = <<>>
    /\ catalog = <<>>
    /\ previous = NoResult
    /\ args = NoCall
    /\ uri = <<>>

\* lines 148-156 in call c
CallSendRequest(c) ==
    /\ calls[c].pc = "loop"
    /\ ~calls[c].last_page
    /\ calls[c].page < MaxPages
    /\ calls' = [calls EXCEPT ![c].requests = Append(@, calls[c].page),
                              ![c].pc = "urlopen"]
    /\ UNCHANGED <<pc, fvars, result, svars, previous, args, uri>>

\* line 156 in call c: urlopen returns
CallUrlopenReturns(c) ==
    /\ calls[c].pc = "urlopen"
    /\ \E status \in TwoCallHeaders :
           LET body == [kind |-> "ok", header |-> status,
                        entries |-> PageEntries(calls[c].catalog,
                                        calls[c].requests[Len(calls[c].requests)])]
           IN  calls' = [calls EXCEPT ![c].response = body,
                                      ![c].received = Append(@, body),
                                      ![c].pc = "decode"]
    /\ UNCHANGED <<pc, fvars, result, svars, previous, args, uri>>

\* line 156 in call c: urlopen returns a malformed body
CallUrlopenReturnsBadBody(c) ==
    /\ calls[c].pc = "urlopen"
    /\ \E body \in BadBodies(PageEntries(calls[c].catalog,
                                calls[c].requests[Len(calls[c].requests)])) :
           calls' = [calls EXCEPT ![c].response = body, ![c].pc = "decode"]
    /\ UNCHANGED <<pc, fvars, result, svars, previous, args, uri>>

\* line 156 in call c: urlopen raises
CallUrlopenRaises(c) ==
    /\ calls[c].pc = "urlopen"
    /\ \E err \in FetchErrors :
           calls' = [calls EXCEPT ![c].response = err, ![c].pc = "raised"]
    /\ UNCHANGED <<pc, fvars, result, svars, previous, args, uri>>

\* CallDecodePage with one results list for all the calls (a module-level
\* accumulator)
CallDecodePage_SharedResults(c) ==
    /\ calls[c].pc = "decode"
    /\ IF Undecodable(calls[c].response)
       THEN calls' = [calls EXCEPT ![c].pc = "raised"]
       ELSE calls' =
                [d \in CallIds |->
                    IF d = c
                    THEN [calls[c] EXCEPT
                             !.results = Extend(@, calls[c].response.entries),
                             !.last_page =
                                 IF Exhausted(calls[c].response.header)
                                 THEN TRUE ELSE @,
                             !.page = @ + 1,
                             !.pc = "loop"]
                    ELSE [calls[d] EXCEPT
                             !.results = Extend(@, calls[c].response.entries)]]
    /\ UNCHANGED <<pc, fvars, result, svars, previous, args, uri>>

\* lines 162-171 in call c
CallDecodePage(c) ==
    /\ calls[c].pc = "decode"
    /\ IF Undecodable(calls[c].response)
       THEN calls' = [calls EXCEPT ![c].pc = "raised"]
       ELSE calls' =
                [calls EXCEPT
                    ![c].results = Extend(@, calls[c].response.entries),
                    ![c].last_page =
                        IF Exhausted(calls[c].response.header) THEN TRUE ELSE @,
                    ![c].page = @ + 1,
                    ![c].pc = "loop"]
    /\ UNCHANGED <<pc, fvars, result, svars, previous, args, uri>>

\* line 174 in call c
CallReturnFormatted(c) ==
    /\ calls[c].pc = "loop"
    /\ calls[c].last_page
    /\ IF MergeAllRaises(<<>>, calls[c].results)
       THEN calls' = [calls EXCEPT ![c].pc = "raised"]
       ELSE calls' =
                [calls EXCEPT
                    ![c].result = SortDict(MergeAll(<<>>, calls[c].results)),
                    ![c].pc = "returned"]
    /\ UNCHANGED <<pc, fvars, result, svars, previous, args, uri>>

NextTwoCalls ==
    \E c \in CallIds :
        \/ CallSendRequest(c)
        \/ CallUrlopenReturns(c)
        \/ CallUrlopenReturnsBadBody(c)
        \/ CallUrlopenRaises(c)
        \/ CallDecodePage(c)
        \/ CallReturnFormatted(c)

SpecTwoCalls == InitTwoCalls /\ [][NextTwoCalls]_vars

(***************************************************************************)
(* Definitions the properties are stated with.  They are written from the  *)
(* statements, not from the operators above.                               *)
(***************************************************************************)
Returned == pc = "returned"

\* the title ends with the literal suffix .nc
HasNcSuffix(t) == \E n \in 0..Len(t) : t = SubSeq(t, 1, n) \o <<".", "n", "c">>

\* the normalized identifier of a title
Identifier(t) == IF HasNcSuffix(t) THEN t ELSE t \o <<".", "n", "c">>

\* plain string order: at the first position where a and b differ a has the
\* smaller character, or a is a proper prefix of b
Before(a, b) ==
    \E n \in 0..Len(a) :
        /\ n <= Len(b)
        /\ SubSeq(a, 1, n) = SubSeq(b, 1, n)
        /\ \/ n = Len(a) /\ n < Len(b)
           \/ n < Len(a) /\ n < Len(b) /\ Ord(a[n + 1]) < Ord(b[n + 1])

\* the indices of the input entries whose identifier is k
Contributors(k) == { i \in 1..Len(entries) : Identifier(entries[i]["title"]) = k }

\* a link without its provider tag
Bare(link) == [href |-> link["href"], title |-> link["title"]]

BareLinks(links) == [i \in 1..Len(links) |-> Bare(links[i])]

\* the links of the entries es whose identifier is k, in the order of es
RECURSIVE RawLinksOf(_, _)
RawLinksOf(es, k) ==
    IF es = <<>> THEN <<>>
    ELSE (IF Identifier(Head(es)["title"]) = k
          THEN BareLinks(Head(es)["links"]) ELSE <<>>)
         \o RawLinksOf(Tail(es), k)

ResultKeys == { result[j].file_id : j \in 1..Len(result) }

Max(S) == CHOOSE x \in S : \A y \in S : y <= x

(***************************************************************************)
(* C5: the keys of the returned mapping are exactly the normalized titles  *)
(* of the input entries, one record per distinct identifier, and every     *)
(* entry's links are in the one record of its identifier, whatever its     *)
(* provider.                                                               *)
(***************************************************************************)
C5_OneRecordPerIdentifier ==
    Returned =>
        /\ ResultKeys = { Identifier(entries[i]["title"]) : i \in 1..Len(entries) }
        /\ Len(result) = Cardinality(ResultKeys)
        /\ \A i \in 1..Len(entries) :
               \A j \in 1..Len(result) :
                   result[j].file_id = Identifier(entries[i]["title"]) =>
                       \A l \in 1..Len(entries[i]["links"]) :
                           \E m \in 1..Len(result[j].entry["links"]) :
                               Bare(result[j].entry["links"][m])
                                   = Bare(entries[i]["links"][l])

\* two entries from different providers ended in one record
C5_Witness ==
    /\ Returned
    /\ Len(result) = 1
    /\ \E i, j \in 1..Len(entries) : entries[i]["source"] # entries[j]["source"]

(***************************************************************************)
(* C6: the link list of every record is the concatenation, in accumulation *)
(* order, of the link lists of the entries with its identifier: nothing is *)
(* dropped, reordered or deduplicated.                                     *)
(***************************************************************************)
C6_LinksConcatenated ==
    Returned =>
        \A j \in 1..Len(result) :
            BareLinks(result[j].entry["links"]) = RawLinksOf(entries, result[j].file_id)

\* an entry with 2 links merged with a later entry with 1 link: 3 links
C6_Witness ==
    /\ Returned
    /\ Len(entries) = 2
    /\ Len(entries[1]["links"]) = 2
    /\ Len(entries[2]["links"]) = 1
    /\ Len(result) = 1
    /\ Len(result[1].entry["links"]) = 3

(***************************************************************************)
(* C7: every attribute of a record other than links has the value of the   *)
(* last entry of its identifier whose value is not None, and is None only  *)
(* if all of them are None.                                                *)
(***************************************************************************)
C7_LastNonNullWins ==
    Returned =>
        \A j \in 1..Len(result) :
            \A attr \in (DOMAIN result[j].entry) \ {"links"} :
                LET nonNull == { i \in Contributors(result[j].file_id) :
                                     entries[i][attr] # None }
                IN  IF nonNull = {}
                    THEN result[j].entry[attr] = None
                    ELSE result[j].entry[attr] = entries[Max(nonNull)][attr]

\* summary foo then summary None: foo is kept, while updated comes from
\* the later entry
C7_Witness ==
    /\ Returned
    /\ Len(entries) = 2
    /\ Len(result) = 1
    /\ "summary" \in DOMAIN entries[1]
    /\ "summary" \in DOMAIN entries[2]
    /\ entries[1]["summary"] = Foo
    /\ entries[2]["summary"] = None
    /\ entries[1]["updated"] = None
    /\ entries[2]["updated"] = U1
    /\ result[1].entry["summary"] = Foo
    /\ result[1].entry["updated"] = U1

(***************************************************************************)
(* C8: the identifier under which an entry is merged is its title if the   *)
(* title ends with .nc and title + .nc otherwise, whatever its provider;   *)
(* normalizing an identifier again gives the same identifier; an entry     *)
(* titled X and one titled X.nc end in the single record keyed X.nc.       *)
(***************************************************************************)
C8_IdentifierNormalization ==
    /\ \A i \in 1..Len(entries) :
           /\ FileId(entries[i]) = Identifier(entries[i]["title"])
           /\ FileId([title |-> FileId(entries[i])]) = FileId(entries[i])
    /\ \A i \in 1..idx :
           pc = "merge" => HasKey(dict_entries, Identifier(entries[i]["title"]))
    /\ Returned =>
           \A i, j \in 1..Len(entries) :
               entries[j]["title"] = entries[i]["title"] \o <<".", "n", "c">> =>
                   Cardinality({ m \in 1..Len(result) :
                                     result[m].file_id = entries[j]["title"] }) = 1

\* an entry titled a and an entry titled a.nc gave the one record a.nc
C8_Witness ==
    /\ Returned
    /\ Len(entries) = 2
    /\ entries[1]["title"] = <<"a">>
    /\ entries[2]["title"] = <<"a", ".", "n", "c">>
    /\ entries[1]["source"] # entries[2]["source"]
    /\ Len(result) = 1
    /\ result[1].file_id = <<"a", ".", "n", "c">>

(***************************************************************************)
(* C9: the returned mapping iterates its keys in strictly ascending plain  *)
(* string order, whatever the order of the input.                          *)
(***************************************************************************)
C9_SortedByIdentifier ==
    Returned =>
        \A i, j \in 1..Len(result) :
            i < j => Before(result[i].file_id, result[j].file_id)

\* input b.nc, a.nc, c.nc gives a.nc, b.nc, c.nc
C9_Witness ==
    /\ Returned
    /\ Len(entries) = 3
    /\ entries[1]["title"] = <<"b", ".", "n", "c">>
    /\ entries[2]["title"] = <<"a", ".", "n", "c">>
    /\ entries[3]["title"] = <<"c", ".", "n", "c">>
    /\ DictKeys(result) = << <<"a", ".", "n", "c">>, <<"b", ".", "n", "c">>,
                             <<"c", ".", "n", "c">> >>

(***************************************************************************)
(* Properties of search.                                                   *)
(***************************************************************************)
Header(t, s, p) == [total_results |-> t, start_index |-> s, items_per_page |-> p]

OkPage(status, es) == [kind |-> "ok", header |-> status, entries |-> es]

LastReceived == received[Len(received)]

\* the test of the specification on a header
StopsAt(h) == h.total_results < (h.start_index + 1) * h.items_per_page

\* urlopen raised on the last request
FetchFailed == response.kind \in {"HTTPError", "URLError"}

\* the requests issued so far are for the pages 0, 1, 2, ... in this order
RequestsInOrder == \A i \in 1..Len(requests) : requests[i] = i - 1

(***************************************************************************)
(* C1: once a page is processed, search has stopped iff the header of that *)
(* page has total_results < (start_index + 1) * items_per_page, with the   *)
(* numbers the service reported; if it has not stopped its next step is    *)
(* the request of the next page, and if it has stopped it requests no      *)
(* page any more.                                                          *)
(***************************************************************************)
C1_ContinuationFromHeader ==
    /\ [](pc = "loop" /\ received # <<>> =>
              (last_page <=> StopsAt(LastReceived.header)))
    /\ [][pc = "loop" /\ ~last_page =>
              requests' = Append(requests, Len(received))]_vars
    /\ [][last_page => requests' = requests]_vars

\* Page 0 carried 2 entries under the header (2, 0, 1) and search went on
\* (the count of the entries received would have stopped it); page 1 came
\* under the header (2, 2, 1) and search stopped (the local page counter,
\* 1, would not have stopped it).
C1_Witness ==
    /\ pc = "loop"
    /\ Len(received) = 2
    /\ received[1].header = Header(2, 0, 1)
    /\ Len(received[1].entries) = 2
    /\ received[2].header = Header(2, 2, 1)
    /\ last_page

(***************************************************************************)
(* C2: against a service that reports the same total_results T and the     *)
(* same items_per_page P > 0 on every page, and the requested page as      *)
(* start_index, search requests the pages 0, 1, ..., T div P in this order *)
(* and then stops.                                                         *)
(***************************************************************************)
ConstantService ==
    /\ received # <<>>
    /\ received[1].header.items_per_page > 0
    /\ \A i \in 1..Len(received) :
           /\ received[i].header.total_results = received[1].header.total_results
           /\ received[i].header.items_per_page = received[1].header.items_per_page
           /\ received[i].header.start_index = requests[i]

C2_PagesRequested ==
    ConstantService =>
        LET last == received[1].header.total_results
                        \div received[1].header.items_per_page
        IN  /\ RequestsInOrder
            /\ Len(requests) <= last + 1
            /\ pc \in {"loop", "returned"} =>
                   (last_page <=> Len(received) = last + 1)
            /\ pc = "returned" => requests = [i \in 1..(last + 1) |-> i - 1]

\* T = 250 and P = 100: the pages 0, 1, 2 were fetched and search returned
C2_Witness ==
    /\ ConstantService
    /\ received[1].header.total_results = 250
    /\ received[1].header.items_per_page = 100
    /\ requests = <<0, 1, 2>>
    /\ pc = "returned"

(***************************************************************************)
(* C3: once a page whose header has items_per_page = 0 is processed,       *)
(* search has stopped, whatever total_results is.                          *)
(***************************************************************************)
C3_ZeroItemsPerPageStops ==
    (pc = "loop" /\ received # <<>> /\ LastReceived.header.items_per_page = 0)
        => last_page

(***************************************************************************)
(* C4: once the fetch of a page has failed, no mapping is or will be       *)
(* returned, the failed request is the last one issued, and every page was *)
(* requested once.                                                         *)
(***************************************************************************)
C4_AllOrNothing ==
    /\ [](FetchFailed =>
              /\ result = NoResult
              /\ pc # "returned"
              /\ RequestsInOrder
              /\ Len(requests) = Len(received) + 1)
    /\ [][FetchFailed => (requests' = requests /\ result' = NoResult)]_vars

\* the fetch of a later page failed with 404 after entries had been
\* accumulated: search raised
C4_Witness ==
    /\ FetchFailed
    /\ response.code = 404
    /\ results # <<>>
    /\ pc = "raised"
    /\ result = NoResult

(***************************************************************************)
(* C10: the end-to-end scenario.                                           *)
(***************************************************************************)
Page0 == OkPage(Header(2, 0, 1), <<F1nc>>)
Page1 == OkPage(Header(2, 1, 1), <<F1>>)
Page2 == OkPage(Header(2, 2, 1), <<>>)

\* exactly one record, keyed f1.nc, with the links of page 0's entry
\* followed by those of page 1's entry
OneRecordF1 ==
    /\ Len(result) = 1
    /\ result[1].file_id = <<"f", "1", ".", "n", "c">>
    /\ BareLinks(result[1].entry["links"])
           = BareLinks(F1nc["links"]) \o BareLinks(F1["links"])

\* C10 as stated: when the service has returned page 0 and page 1, search
\* returns the one record.
C10_AsStated ==
    [][(received = <<Page0, Page1>> /\ pc = "loop") =>
           (pc' = "returned" /\ OneRecordF1')]_vars

\* C10 as amended: page 1's header does not stop search (2 < 2 is false);
\* search requests page 2, and when the service answers it with no entries
\* under the header (2, 2, 1), search returns the one record.
C10_EndToEnd ==
    /\ (received = <<Page0, Page1>> /\ pc = "loop") => ~last_page
    /\ (received = <<Page0, Page1, Page2>> /\ pc = "returned") =>
           (requests = <<0, 1, 2>> /\ OneRecordF1)

C10_Witness ==
    /\ received = <<Page0, Page1, Page2>>
    /\ pc = "returned"
    /\ Len(result) = 1

(***************************************************************************)
(* Totality of format_opensearch_result, its re-application to its own     *)
(* output, and the keys and provider tags of the records (SpecFormat).     *)
(***************************************************************************)
\* C11: format_opensearch_result returns a mapping without raising for
\* every list of raw entries with a title and a link list, also when a
\* descriptive attribute or the entry-level provider is absent on one entry
\* and present on another entry of the same identifier: no call ends in an
\* exception.
C11_Total == pc # "raised"

\* C12: merge idempotence.  When format_opensearch_result is applied to a
\* list of raw entries and then again to the records of its output taken
\* as raw entries, the second call returns, and returns the same records.
C12_Idempotent ==
    (previous # NoResult /\ pc \in {"returned", "raised"})
        => (pc = "returned" /\ result = previous)

\* the provider of the raw entry each link of identifier k came from, in
\* the order of the input
RECURSIVE ProvidersOf(_, _)
ProvidersOf(es, k) ==
    IF es = <<>> THEN <<>>
    ELSE (IF Identifier(Head(es)["title"]) = k
          THEN [m \in 1..Len(Head(es)["links"]) |-> Head(es)["source"]]
          ELSE <<>>) \o ProvidersOf(Tail(es), k)

\* the tag each link of identifier k arrived with, and where it arrived with
\* none the provider of its entry
RECURSIVE OwnTagsOf(_, _)
OwnTagsOf(es, k) ==
    IF es = <<>> THEN <<>>
    ELSE (IF Identifier(Head(es)["title"]) = k
          THEN [m \in 1..Len(Head(es)["links"]) |->
                   IF "source" \in DOMAIN Head(es)["links"][m]
                   THEN Head(es)["links"][m]["source"]
                   ELSE Head(es)["source"]]
          ELSE <<>>) \o OwnTagsOf(Tail(es), k)

\* the provider tags of the links of a record
TagsOf(rec) == [m \in 1..Len(rec["links"]) |-> rec["links"][m]["source"]]

\* C14: every link of every record of the output carries a provider tag,
\* and the tag is the provider of the raw entry the link came from, also
\* for the links appended to a record that was created from the entry of
\* another provider.
C14_LinksTaggedWithEntryProvider ==
    Returned =>
        \A j \in 1..Len(result) :
            /\ \A m \in 1..Len(result[j].entry["links"]) :
                   "source" \in DOMAIN result[j].entry["links"][m]
            /\ TagsOf(result[j].entry) = ProvidersOf(entries, result[j].file_id)

\* a record created from one provider's entry carries, after that entry's
\* links, the links of another provider's entry, and a link that arrived
\* with a tag of its own
C14_Witness ==
    /\ Returned
    /\ Len(entries) = 2
    /\ entries[1]["source"] # entries[2]["source"]
    /\ \E m \in 1..Len(entries[2]["links"]) :
           "source" \in DOMAIN entries[2]["links"][m]
    /\ Len(result) = 1
    /\ TagsOf(result[1].entry) =
           [m \in 1..Len(entries[1]["links"]) |-> entries[1]["source"]]
               \o [m \in 1..Len(entries[2]["links"]) |-> entries[2]["source"]]

\* C18: a link that arrives carrying a provider tag of its own keeps that
\* tag in the output; only the links that arrive without a tag receive the
\* provider of their entry.
C18_OwnTagKept ==
    Returned =>
        \A j \in 1..Len(result) :
            TagsOf(result[j].entry) = OwnTagsOf(entries, result[j].file_id)

\* the least element of a set of numbers
Min(S) == CHOOSE x \in S : \A y \in S : x <= y

\* C19: the attribute keys of the record of an identifier are the keys of
\* the first input entry of that identifier, without the entry-level
\* provider: no record has a top-level provider key, and the merge of a
\* later entry adds no key.
C19_KeysOfFirstEntry ==
    Returned =>
        \A j \in 1..Len(result) :
            /\ "source" \notin DOMAIN result[j].entry
            /\ DOMAIN result[j].entry =
                   (DOMAIN entries[Min(Contributors(result[j].file_id))]) \ {"source"}

\* the first entry of an identifier has no summary, a later entry of that
\* identifier has one, and the record has none
C19_Witness ==
    /\ Returned
    /\ Len(entries) = 2
    /\ Len(result) = 1
    /\ "summary" \notin DOMAIN entries[1]
    /\ "summary" \in DOMAIN entries[2]
    /\ "summary" \notin DOMAIN result[1].entry

(***************************************************************************)
(* The query string (SpecUrl).                                             *)
(***************************************************************************)
\* the query string u has a parameter of this name: the name stands between
\* a separator (? or &) and an = sign
HasParam(u, name) ==
    \E i \in 1..(Len(u) - 2) :
        u[i] \in {"?", "&"} /\ u[i + 1] = name /\ u[i + 2] = "="

\* C13: whichever of the optional arguments area, dac and protocol are
\* given, the query built by _format_opensearch_url contains datasetId,
\* startPage, count, timeStart and timeEnd; it contains geoBox exactly when
\* an area is given, source exactly when a dac is given, and protocol
\* exactly when a protocol is given.
C13_QueryParameters ==
    pc = "formatted" =>
        /\ \A name \in {"datasetId", "startPage", "count", "timeStart", "timeEnd"} :
               HasParam(uri, name)
        /\ HasParam(uri, "geoBox") <=> args.area # None
        /\ HasParam(uri, "source") <=> args.dac # None
        /\ HasParam(uri, "protocol") <=> args.protocol # None

\* a query is built with an area and a protocol and without a dac
C13_Witness ==
    /\ pc = "formatted"
    /\ args.area # None /\ args.dac = None /\ args.protocol # None
    /\ HasParam(uri, "geoBox") /\ HasParam(uri, "protocol")
    /\ ~HasParam(uri, "source")

(***************************************************************************)
(* The order of the requests, malformed bodies and the absence of a page   *)
(* cap (Spec).                                                             *)
(***************************************************************************)
\* the entries of the pages, one page after the other
RECURSIVE AllEntries(_)
AllEntries(pages) ==
    IF pages = <<>> THEN <<>>
    ELSE Head(pages).entries \o AllEntries(Tail(pages))

\* C15: within one search the pages are requested one at a time, for the
\* indices 0, 1, 2, ... each once and each the previous plus one: at most one
\* request is unanswered, and the request for the next page is issued only
\* once the response of the page before is received, its entries are
\* appended, and its termination test has evaluated to false.
C15_OneRequestAtATime ==
    /\ [](RequestsInOrder /\ Len(requests) - Len(received) \in {0, 1})
    /\ [][requests' # requests =>
              /\ requests' = Append(requests, Len(requests))
              /\ Len(received) = Len(requests)
              /\ results = AllEntries(received)
              /\ received # <<>> => ~StopsAt(LastReceived.header)]_vars

\* page 2 is requested after pages 0 and 1 were received and accumulated
C15_Witness ==
    /\ pc = "urlopen"
    /\ requests = <<0, 1, 2>>
    /\ Len(received) = 2
    /\ results = AllEntries(received)
    /\ results # <<>>

\* the last response is a body that is no JSON or lacks header or entries
BadBody ==
    /\ response.kind = "ok"
    /\ ~({"header", "entries"} \subseteq DOMAIN response)

\* C16: a response body that is not valid JSON, or that lacks the header or
\* the entries member, aborts the whole search with an error: no further
\* page is requested and no mapping is returned, whatever had been
\* accumulated from the pages before.
C16_BadBodyAborts ==
    /\ [](BadBody => pc \in {"decode", "raised"} /\ result = NoResult)
    /\ [][BadBody => pc' = "raised" /\ requests' = requests
                         /\ result' = NoResult]_vars

\* search has raised on the malformed body of page 1, with the entries of
\* page 0 accumulated
C16_Witness ==
    /\ BadBody
    /\ pc = "raised"
    /\ Len(requests) = 2
    /\ results # <<>>
    /\ result = NoResult

\* every page returned so far has a header that fails the termination test,
\* and no fetch has failed
KeepsGoing ==
    /\ \A i \in 1..Len(received) : ~StopsAt(received[i].header)
    /\ ~FetchFailed
    /\ ~BadBody

\* while KeepsGoing holds search has not returned, and between two pages
\* its one possible step is the request of the next index (a request the
\* code always makes; the model stops making it at MaxPages)
NeverReturns ==
    /\ [](KeepsGoing =>
              /\ pc \in {"loop", "urlopen", "decode"}
              /\ result = NoResult
              /\ (pc = "loop" /\ page < MaxPages) => ENABLED SendRequest)
    /\ [][KeepsGoing /\ pc = "loop" =>
              requests' = Append(requests, Len(received))]_vars

\* C17 as stated: search has no page cap; while every page has a header
\* that fails the termination test and no fetch fails, search does not
\* return, requests the pages of ever-increasing index, and its accumulator
\* grows with every page.
C17_AsStated ==
    /\ NeverReturns
    /\ [][KeepsGoing' /\ pc = "decode" => Len(results') > Len(results)]_vars

\* C17, amended: search has no page cap; while every page has a header that
\* fails the termination test and no fetch fails, search does not return
\* and requests the pages of ever-increasing index; its accumulator is
\* extended by the entries of each page, so that it never shrinks, and
\* grows when the page has entries.
C17_NoPageCap ==
    /\ NeverReturns
    /\ [][KeepsGoing' /\ pc = "decode" =>
              /\ results' = results \o LastReceived.entries
              /\ Len(results') >= Len(results)]_vars

\* three pages were received, none stops the loop, and search is about to
\* go on, with the entries of the first two pages accumulated
C17_Witness ==
    /\ KeepsGoing
    /\ pc = "loop"
    /\ Len(received) = MaxPages
    /\ page = MaxPages
    /\ ~last_page
    /\ Len(results) >= 2

(***************************************************************************)
(* Two calls at the same time (SpecTwoCalls).                              *)
(***************************************************************************)
\* the last response of a call is an error of the fetch, or a malformed body
CallFailed(s) ==
    \/ s.response.kind \in {"HTTPError", "URLError"}
    \/ /\ s.response.kind = "ok"
       /\ ~({"header", "entries"} \subseteq DOMAIN s.response)

\* what a call alone has requested once it is where s is, after the pages
\* s.received: the indices 0, 1, ... of those pages, and one more when the
\* call waits for a response or was answered by a failure
RequestsAlone(s) ==
    [i \in 1..(Len(s.received) + IF s.pc = "urlopen" \/ CallFailed(s) THEN 1 ELSE 0)
        |-> i - 1]

\* what a call alone has accumulated: the entries of the pages it received,
\* but for the page it has not decoded yet
ResultsAlone(s) ==
    IF s.pc = "decode" /\ ~CallFailed(s)
    THEN AllEntries(SubSeq(s.received, 1, Len(s.received) - 1))
    ELSE AllEntries(s.received)

\* the state of a call is the one it has when it runs alone against the
\* same responses
RunsAsAlone(s) ==
    /\ s.requests = RequestsAlone(s)
    /\ s.results = ResultsAlone(s)
    /\ \A i \in 1..Len(s.received) :
           s.received[i].entries = IF i <= Len(s.catalog) THEN s.catalog[i] ELSE <<>>
    /\ IF s.pc = "returned"
       THEN s.result = SortDict(MergeAll(<<>>, AllEntries(s.received)))
       ELSE s.result = NoResult

\* C20: two calls of search whose steps interleave arbitrarily share no
\* state: a step of one call changes nothing of the other, and the requests,
\* the accumulator and the returned mapping of each call are those of the
\* call running alone against the same responses of the service.
C20_NoSharedState ==
    /\ [](\A c \in CallIds : RunsAsAlone(calls[c]))
    /\ [][\A c, d \in CallIds :
              (c # d /\ calls'[c] # calls[c]) => calls'[d] = calls[d]]_vars

\* both calls are in progress, each with a page accumulated: call 1 decodes
\* its second page while call 2 waits for the response to its second request,
\* and their accumulators differ
C20_Witness ==
    /\ calls[1].pc = "decode"
    /\ Len(calls[1].received) = 2
    /\ calls[2].pc = "urlopen"
    /\ calls[2].requests = <<0, 1>>
    /\ calls[1].results # <<>>
    /\ calls[2].results # <<>>
    /\ calls[1].results # calls[2].results

(***************************************************************************)
(* The empty first page and the parameters of the requests (Spec).         *)
(***************************************************************************)
\* the first page reports no result, with a positive page size, and has no
\* entries
EmptyFirstPage ==
    /\ received # <<>>
    /\ received[1].header.total_results = 0
    /\ received[1].header.items_per_page > 0
    /\ received[1].entries = <<>>

\* C21: when the first page reports total_results = 0 with
\* items_per_page > 0 and carries no entries, search issues exactly one
\* request and returns an empty mapping rather than an error: no second
\* request is made, nothing is raised, and the one step left after the page
\* is decoded is the return of the empty mapping.
C21_EmptyFirstPage ==
    /\ [](EmptyFirstPage =>
              /\ requests = <<0>>
              /\ pc \in {"decode", "loop", "returned"}
              /\ pc = "returned" => result = <<>>)
    /\ [][EmptyFirstPage /\ pc = "loop" =>
              pc' = "returned" /\ result' = <<>> /\ requests' = requests]_vars

\* search has returned the empty mapping after its one request
C21_Witness ==
    /\ EmptyFirstPage
    /\ pc = "returned"
    /\ requests = <<0>>
    /\ result = <<>>

\* the names of the query parameters
QueryParams ==
    { "datasetId", "startPage", "count", "timeStart", "timeEnd", "geoBox",
      "source", "protocol" }

\* the value of the parameter name of the query string u: what stands
\* between its = sign and the next separator
ParamValue(u, name) ==
    LET i == CHOOSE j \in 1..(Len(u) - 2) :
                 u[j] \in {"?", "&"} /\ u[j + 1] = name /\ u[j + 2] = "="
        ends == { j \in (i + 3)..Len(u) : u[j] = "&" } \cup { Len(u) + 1 }
    IN  SubSeq(u, i + 3, Min(ends) - 1)

\* the parameters of the query string u, but for the page index
ParamsButPage(u) ==
    [name \in { n \in QueryParams \ {"startPage"} : HasParam(u, n) } |->
        ParamValue(u, name)]

\* the query string u carries the arguments of the call, with the end time
\* read when the call was entered if none was given
CarriesArguments(u) ==
    /\ ParamValue(u, "datasetId") = args.dataset_id
    /\ ParamValue(u, "count") = <<"1", "0", "0", "0">>
    /\ ParamValue(u, "timeStart") = isoformat(args.start)
    /\ ParamValue(u, "timeEnd") =
           IF args.end = NoneDatetime THEN isoformat(Clock(0))
           ELSE isoformat(args.end)
    /\ HasParam(u, "geoBox") <=> args.area # None
    /\ IF args.dac = None THEN ~HasParam(u, "source")
       ELSE HasParam(u, "source") /\ ParamValue(u, "source") = args.dac
    /\ IF args.protocol = None THEN ~HasParam(u, "protocol")
       ELSE HasParam(u, "protocol") /\ ParamValue(u, "protocol") = args.protocol

\* C22: all the requests of one call of search carry the same dataset
\* identifier, time window (the end time, when it is defaulted to the
\* current time, being fixed once before the first request), area, provider
\* filter, protocol filter and page size: each query carries the arguments
\* of the call, and from one request to the next the page index is the only
\* parameter that changes.
C22_SameParameters ==
    [][uri' # uri =>
          /\ CarriesArguments(uri')
          /\ ParamValue(uri', "startPage") = IntStr(Len(requests))
          /\ uri # <<>> =>
                 /\ uri'[1] = uri[1]
                 /\ ParamsButPage(uri') = ParamsButPage(uri)
                 /\ ParamValue(uri', "startPage") # ParamValue(uri, "startPage")]_vars

\* the third request of a call made without end: its end time is the time
\* the call was entered, its page index is 2
C22_Witness ==
    /\ args.end = NoneDatetime
    /\ pc = "urlopen"
    /\ requests = <<0, 1, 2>>
    /\ ParamValue(uri, "startPage") = <<"2">>
    /\ ParamValue(uri, "timeEnd") = isoformat(Clock(0))
    /\ ParamValue(uri, "source") = <<"OSISAF">>
    /\ ~HasParam(uri, "geoBox")

(***************************************************************************)
(* The title of a record and the records of the other identifiers          *)
(* (SpecFormat).                                                           *)
(***************************************************************************)
\* the title t normalizes to the key k: it is k, or k without its .nc
TitleOfKey(t, k) ==
    /\ Identifier(t) = k
    /\ t = k \/ t \o <<".", "n", "c">> = k

\* C23: in every state of the merge and in its output, the title of the
\* record stored under the key k normalizes to k (it is k itself, or k
\* without its .nc suffix), also after the title was overwritten by a later
\* entry of the same identifier.
C23_TitleNormalizesToKey ==
    /\ \A i \in 1..Len(dict_entries) :
           TitleOfKey(dict_entries[i].entry["title"], dict_entries[i].file_id)
    /\ Returned =>
           \A j \in 1..Len(result) :
               TitleOfKey(result[j].entry["title"], result[j].file_id)

\* the record was created with one title and now has the other title of its
\* identifier, overwritten by the second entry, in the merge and in the
\* output
C23_Witness ==
    /\ Returned
    /\ Len(entries) = 2
    /\ Len(result) = 1
    /\ entries[1]["title"] # entries[2]["title"]
    /\ result[1].entry["title"] = entries[2]["title"]
    /\ result[1].entry["title"] # result[1].file_id
    /\ dict_entries[1].entry["title"] = entries[2]["title"]

\* what the entry e alone yields: its attributes without the provider, and
\* its links, each with the provider of e for its tag
RecordOfEntry(e) ==
    [attr \in (DOMAIN e) \ {"source"} |->
        IF attr = "links"
        THEN [m \in 1..Len(e["links"]) |->
                 [href |-> e["links"][m]["href"], title |-> e["links"][m]["title"],
                  source |-> e["source"]]]
        ELSE e[attr]]

\* C24: processing one raw entry of identifier k changes at most the record
\* stored under k: the records stored under every other identifier, with
\* their attribute values and link lists, are left as they are, so that an
\* identifier contributed by a single entry yields exactly the attributes of
\* that entry (without the provider) and its own links.
C24_OtherRecordsUnchanged ==
    /\ [][(pc = "merge" /\ idx < Len(entries)) =>
              \A i \in 1..Len(dict_entries) :
                  dict_entries[i].file_id # Identifier(entries[idx + 1]["title"])
                      => /\ i <= Len(dict_entries')
                         /\ dict_entries'[i] = dict_entries[i]]_vars
    /\ [](Returned =>
              \A j \in 1..Len(result) :
                  Cardinality(Contributors(result[j].file_id)) = 1 =>
                      result[j].entry =
                          RecordOfEntry(entries[Min(Contributors(result[j].file_id))]))

\* three entries: the second one is alone with its identifier, the first and
\* the third are merged under another one; the record of the second is that
\* entry's
C24_Witness ==
    /\ Returned
    /\ Len(entries) = 3
    /\ Len(result) = 2
    /\ Identifier(entries[1]["title"]) = Identifier(entries[3]["title"])
    /\ Identifier(entries[2]["title"]) # Identifier(entries[1]["title"])
    /\ \E j \in 1..2 :
           /\ result[j].file_id = Identifier(entries[2]["title"])
           /\ result[j].entry = RecordOfEntry(entries[2])
====
